---- MODULE Spec2Model ----
(***************************************************************************)
(* Model of the Freedium detection engine (src/Freedium/background.js,     *)
(* the detectMedium.js part): domain allowlist, head fetch, regex head     *)
(* parsing, weighted signal scoring, per-hostname TTL cache, classifier;   *)
(* and of the host integration (the listeners of background.js with the    *)
(* badge, notification and tab helpers of src/Freedium/utils.js).          *)
(* JavaScript strings are TLA+ strings; the regular expressions of the     *)
(* source are modelled by scanning operators over those strings.           *)
(***************************************************************************)
EXTENDS Integers, Sequences, FiniteSets, TLC

VARIABLES
    detectionCache,  \* Map hostname -> { ts, isMedium, score, reasons }
    clock,           \* Date.now()
    ticks,           \* number of clock advances so far (bounded)
    starts,          \* number of calls started so far (bounded)
    calls,           \* the asynchronous calls in flight, one record per slot
    returned,        \* history: the call that returned in the last step, if one did
    lastWrite,       \* history: per hostname, what the last resolving call wrote, and when
    overlapped,      \* history: some call started while another was in flight
    op,              \* a single application of one of the pure functions
    handlers,        \* the click handlers of the extension, one record per click
    clicks,          \* number of clicks so far (bounded)
    stored,          \* chrome.storage.sync: the configuration of the extension
    ui,              \* the badge text, its pending clear timers, the notifications
    tabs             \* history: the tabs created or navigated, in order

hostVars == <<handlers, clicks, stored, ui, tabs>>

vars ==
    <<detectionCache, clock, ticks, starts, calls, returned, lastWrite, overlapped, op,
      hostVars>>

engineVars ==
    <<detectionCache, clock, ticks, starts, calls, returned, lastWrite, overlapped>>

------------------------------------------------------------------------------
(* Bounds of the model *)

MaxCalls == 2
MaxStarts == 2
MaxTicks == 2
MaxTags == 3
MaxHostParts == 3
MaxClicks == 2

------------------------------------------------------------------------------
(* Configuration constants *)

FETCH_TIMEOUT_MS == 3000

CACHE_TTL_MS == 10 * 60 * 1000

MEDIUM_DETECTION_THRESHOLD == 8

mediumDomains ==
    << "medium.com",
       "towardsdatascience.com",
       "betterprogramming.pub",
       "betterhumans.pub",
       "medium.freecodecamp.org",
       "uxdesign.cc",
       "levelup.gitconnected.com",
       "blog.medium.com",
       "entrepreneurshandbook.co",
       "python.plainenglish.io" >>

MEDIUM_IOS_APP_ID == "828256236"

MEDIUM_ANDROID_PKG == "com.medium.reader"

------------------------------------------------------------------------------
(* JavaScript string primitives *)

Min(S) == CHOOSE x \in S : \A y \in S : x <= y

CharAt(s, i) == IF i >= 1 /\ i <= Len(s) THEN SubSeq(s, i, i) ELSE ""

LowerMap ==
    [c \in {"A", "B", "C", "D", "E", "F", "G", "H", "I", "J", "K", "L", "M",
            "N", "O", "P", "Q", "R", "S", "T", "U", "V", "W", "X", "Y", "Z"} |->
        CASE c = "A" -> "a" [] c = "B" -> "b" [] c = "C" -> "c" [] c = "D" -> "d"
          [] c = "E" -> "e" [] c = "F" -> "f" [] c = "G" -> "g" [] c = "H" -> "h"
          [] c = "I" -> "i" [] c = "J" -> "j" [] c = "K" -> "k" [] c = "L" -> "l"
          [] c = "M" -> "m" [] c = "N" -> "n" [] c = "O" -> "o" [] c = "P" -> "p"
          [] c = "Q" -> "q" [] c = "R" -> "r" [] c = "S" -> "s" [] c = "T" -> "t"
          [] c = "U" -> "u" [] c = "V" -> "v" [] c = "W" -> "w" [] c = "X" -> "x"
          [] c = "Y" -> "y" [] c = "Z" -> "z"]

MapOr(m, c) == IF c \in DOMAIN m THEN m[c] ELSE c

LowerChar(c) == MapOr(LowerMap, c)

RECURSIVE toLowerCase(_)
toLowerCase(s) ==
    IF s = "" THEN "" ELSE LowerChar(SubSeq(s, 1, 1)) \o toLowerCase(Tail(s))

startsWith(s, p) == Len(s) >= Len(p) /\ SubSeq(s, 1, Len(p)) = p

endsWith(s, p) == Len(s) >= Len(p) /\ SubSeq(s, Len(s) - Len(p) + 1, Len(s)) = p

\* the literal t occurs in s at position i
At(s, i, t) == i >= 1 /\ i + Len(t) - 1 <= Len(s) /\ SubSeq(s, i, i + Len(t) - 1) = t

\* the same, ignoring case (the /i flag); t is given in lower case
AtCI(s, i, t) ==
    /\ i >= 1 /\ i + Len(t) - 1 <= Len(s)
    /\ LowerChar(SubSeq(s, i, i)) = SubSeq(t, 1, 1)
    /\ toLowerCase(SubSeq(s, i, i + Len(t) - 1)) = t

includes(s, t) == \E i \in 1..(Len(s) - Len(t) + 1) : At(s, i, t)

\* position of the first occurrence of t at or after i, 0 when there is none
FirstOf(P) == IF P = {} THEN 0 ELSE Min(P)

LastOf(P) == IF P = {} THEN 0 ELSE CHOOSE x \in P : \A y \in P : y <= x

IndexOf(s, t, i) == FirstOf({p \in i..(Len(s) - Len(t) + 1) : At(s, p, t)})

IndexOfCI(s, t, i) == FirstOf({p \in i..(Len(s) - Len(t) + 1) : AtCI(s, p, t)})

IsSpace(c) == c \in {" ", "\t", "\n", "\r", "\f"}

IsQuote(c) == c \in {"\"", "'"}

\* \w of a regular expression
IsWordChar(c) ==
    LowerChar(c) \in
        {"a", "b", "c", "d", "e", "f", "g", "h", "i", "j", "k", "l", "m", "n",
         "o", "p", "q", "r", "s", "t", "u", "v", "w", "x", "y", "z", "0", "1",
         "2", "3", "4", "5", "6", "7", "8", "9", "_"}

IsAlpha(c) == LowerChar(c) \in
        {"a", "b", "c", "d", "e", "f", "g", "h", "i", "j", "k", "l", "m", "n",
         "o", "p", "q", "r", "s", "t", "u", "v", "w", "x", "y", "z"}

------------------------------------------------------------------------------
(* DomainMatcher *)

isDirectMediumDomain_NoDot(hostname) ==
    \E k \in 1..Len(mediumDomains) :
        \/ hostname = mediumDomains[k]
        \/ endsWith(hostname, mediumDomains[k])
        \/ includes(hostname, "medium")

isDirectMediumDomain(hostname) ==
    \E k \in 1..Len(mediumDomains) :
        \/ hostname = mediumDomains[k]
        \/ endsWith(hostname, "." \o mediumDomains[k])
        \/ includes(hostname, "medium")

------------------------------------------------------------------------------
(* Freedium helpers *)

convertToFreediumUrl(url) ==
    "https://freedium-mirror.cfd/" \o
        (IF startsWith(url, "https://") THEN SubSeq(url, 9, Len(url))
         ELSE IF startsWith(url, "http://") THEN SubSeq(url, 8, Len(url))
         ELSE url)

------------------------------------------------------------------------------
(* Regular expressions for pattern matching *)

\* /(?:^|[\s"'(])(?:miro\.medium\.com|glyph\.medium\.com|cdn-images-1\.medium\.com)(?:[^\w.-]|$)/i
MEDIUM_HEAD_HOSTS_RE(s) ==
    \E h \in {"miro.medium.com", "glyph.medium.com", "cdn-images-1.medium.com"} :
        \E p \in 1..(Len(s) - Len(h) + 1) :
            /\ AtCI(s, p, h)
            /\ \/ p = 1
               \/ IsSpace(CharAt(s, p - 1))
               \/ IsQuote(CharAt(s, p - 1))
               \/ CharAt(s, p - 1) = "("
            /\ \/ p + Len(h) - 1 = Len(s)
               \/ LET c == CharAt(s, p + Len(h))
                  IN  ~IsWordChar(c) /\ c # "." /\ c # "-"

\* /^android-app:\/\/com\.medium\.reader\/https\/medium\.com\/p\//i
MEDIUM_ANDROID_APP_RE(s) ==
    AtCI(s, 1, "android-app://com.medium.reader/https/medium.com/p/")

\* /^https:\/\/medium\.com\/@/i
AuthorHrefRe(s) == AtCI(s, 1, "https://medium.com/@")

\* /"https:\/\/medium\.com\/@[^"]+"/i
LdJsonAuthorRe(t) ==
    LET lit == "\"https://medium.com/@"
    IN  \E p \in 1..Len(t) :
            /\ AtCI(t, p, lit)
            /\ LET o == p + Len(lit)
                   q == IndexOf(t, "\"", o)
               IN  q > o

------------------------------------------------------------------------------
(* Utilities *)

\* html.match(/<head[^>]*>([\s\S]*?)<\/head>/i); m ? m[1] : ""
\* p: where "<head" starts; g: the ">" that ends the tag; e: where "</head>" starts
HeadCapture(html, g, e) == IF e = 0 THEN "" ELSE SubSeq(html, g + 1, e - 1)

HeadFromTag(html, g) ==
    HeadCapture(html, g, IF g = 0 THEN 0 ELSE IndexOfCI(html, "</head>", g + 1))

HeadFrom(html, p) == HeadFromTag(html, IF p = 0 THEN 0 ELSE IndexOf(html, ">", p + 5))

textBetweenHeadTags(html) == HeadFrom(html, IndexOfCI(html, "<head", 1))

\* /key=["']([^"']+)["']/i.exec(attrs): the capture, "" when there is no match
\* (a capture is never empty, so "" stands for the absent field)
\* the first quote character at or after position i, 0 when there is none
QuoteFrom(attrs, i) == FirstOf({j \in i..Len(attrs) : IsQuote(CharAt(attrs, j))})

\* key= at p, a quote at o = p + Len(key) + 1, one character or more, a quote
AttrMatchAt(attrs, key, p) ==
    /\ AtCI(attrs, p, key \o "=")
    /\ IsQuote(CharAt(attrs, p + Len(key) + 1))
    /\ QuoteFrom(attrs, p + Len(key) + 2) > p + Len(key) + 2

AttrCapture(attrs, o) ==
    IF o = 0 THEN "" ELSE SubSeq(attrs, o + 1, QuoteFrom(attrs, o + 1) - 1)

AttrQuoteOf(p, key) == IF p = 0 THEN 0 ELSE p + Len(key) + 1

ExtractAttr(attrs, key) ==
    AttrCapture(attrs,
        AttrQuoteOf(FirstOf({p \in 1..Len(attrs) : AttrMatchAt(attrs, key, p)}), key))

\* /<tag\s+([^>]*?)>/gi at position p
TagMatchAt(head, tag, p) ==
    /\ AtCI(head, p, "<" \o tag)
    /\ IsSpace(CharAt(head, p + Len(tag) + 1))
    /\ IndexOf(head, ">", p + Len(tag) + 2) # 0

\* the successive captures of /<tag\s+([^>]*?)>/gi from position i on
RECURSIVE TagAttrsFrom(_, _, _)

\* the match at p ends at the ">" at g; the capture starts after the white space
TagAttrsTo(head, tag, p, g) ==
    <<SubSeq(head, Min({j \in (p + Len(tag) + 1)..g : ~IsSpace(CharAt(head, j))}), g - 1)>>
        \o TagAttrsFrom(head, tag, g + 1)

TagAttrsAt(head, tag, p) ==
    IF p = 0 THEN << >>
    ELSE TagAttrsTo(head, tag, p, IndexOf(head, ">", p + Len(tag) + 2))

TagAttrsFrom(head, tag, i) ==
    TagAttrsAt(head, tag, FirstOf({p \in i..Len(head) : TagMatchAt(head, tag, p)}))

MetaFields(A) ==
    [i \in 1..Len(A) |->
        [name |-> ExtractAttr(A[i], "name"),
         property |-> ExtractAttr(A[i], "property"),
         content |-> ExtractAttr(A[i], "content")]]

parseMetaTags(headHTML) == MetaFields(TagAttrsFrom(headHTML, "meta", 1))

LinkFields(A) ==
    [i \in 1..Len(A) |->
        [rel |-> ExtractAttr(A[i], "rel"),
         href |-> ExtractAttr(A[i], "href"),
         title |-> ExtractAttr(A[i], "title")]]

parseLinkTags(headHTML) == LinkFields(TagAttrsFrom(headHTML, "link", 1))

\* /<script[^>]*type=["']application\/ld\+json["'][^>]*>([\s\S]*?)<\/script>/gi at p
ScriptTagTo(head, p, g) ==
    /\ g # 0
    /\ \E k \in (p + 7)..(g - 1) :
          /\ AtCI(head, k, "type=")
          /\ IsQuote(CharAt(head, k + 5))
          /\ AtCI(head, k + 6, "application/ld+json")
          /\ IsQuote(CharAt(head, k + 25))
          /\ k + 25 < g
    /\ IndexOfCI(head, "</script>", g + 1) # 0

ScriptMatchAt(head, p) ==
    /\ AtCI(head, p, "<script")
    /\ ScriptTagTo(head, p, IndexOf(head, ">", p + 7))

RECURSIVE ScriptBodiesFrom(_, _)

\* the opening tag ends at g, the closing tag starts at e
ScriptBodyTo(head, g, e) ==
    <<SubSeq(head, g + 1, e - 1)>> \o ScriptBodiesFrom(head, e + 9)

ScriptBodyFromTag(head, g) == ScriptBodyTo(head, g, IndexOfCI(head, "</script>", g + 1))

ScriptBodiesAt(head, p) ==
    IF p = 0 THEN << >> ELSE ScriptBodyFromTag(head, IndexOf(head, ">", p + 7))

ScriptBodiesFrom(head, i) ==
    ScriptBodiesAt(head, FirstOf({p \in i..Len(head) : ScriptMatchAt(head, p)}))

parseScriptTags(headHTML) == ScriptBodiesFrom(headHTML, 1)

NonEmpty(v) == v # ""

\* .map((m) => m[attr]).filter(Boolean)
MapFilter(T, attr) == SelectSeq([i \in 1..Len(T) |-> T[i][attr]], NonEmpty)

pickMetaName(metaTags, name) ==
    LET Test(tag) == tag.name # "" /\ toLowerCase(tag.name) = toLowerCase(name)
    IN  MapFilter(SelectSeq(metaTags, Test), "content")

pickMetaProp(metaTags, prop) ==
    LET Test(tag) == tag.property # "" /\ toLowerCase(tag.property) = toLowerCase(prop)
    IN  MapFilter(SelectSeq(metaTags, Test), "content")

pickLinkAttr(linkTags, rel, attr) ==
    LET Test(tag) == tag.rel # "" /\ toLowerCase(tag.rel) = toLowerCase(rel)
    IN  MapFilter(SelectSeq(linkTags, Test), attr)

hasExact(arr, value) ==
    \E i \in 1..Len(arr) : toLowerCase(arr[i]) = toLowerCase(value)

\* re.test(s) for the two patterns that reach anyMatch, named by their source text
RegexTest(re, s) ==
    IF re = "MEDIUM_ANDROID_APP_RE" THEN MEDIUM_ANDROID_APP_RE(s) ELSE AuthorHrefRe(s)

anyMatch(arr, re) == \E i \in 1..Len(arr) : RegexTest(re, arr[i])

------------------------------------------------------------------------------
(* Heuristic scoring based on <head> signals *)

\* if (cond) { score = weight; reasons.push(reason) }: the running total is lost
AddSignal_Assign(acc, cond, weight, reason) ==
    IF cond
    THEN [score |-> weight, reasons |-> Append(acc.reasons, reason)]
    ELSE acc

\* if (cond) { score += weight; reasons.push(reason) }
AddSignal(acc, cond, weight, reason) ==
    IF cond
    THEN [score |-> acc.score + weight, reasons |-> Append(acc.reasons, reason)]
    ELSE acc

\* the body of scoreMediumSignals, after the three parses of lines 366-368
ScoreParsed(headRawHTML, metaTags, linkTags, ldJsonBlocks) ==
    LET twitterAppName == pickMetaName(metaTags, "twitter:app:name:iphone")
        twitterAppId == pickMetaName(metaTags, "twitter:app:id:iphone")
        alIosName == pickMetaProp(metaTags, "al:ios:app_name")
        alIosId == pickMetaProp(metaTags, "al:ios:app_store_id")
        alAndroidPkg == pickMetaProp(metaTags, "al:android:package")
        alAndroidName == pickMetaProp(metaTags, "al:android:app_name")
        altAndroidHref == pickLinkAttr(linkTags, "alternate", "href")
        relAuthor == pickLinkAttr(linkTags, "author", "href")
        osdHref == pickLinkAttr(linkTags, "search", "href")
        osdTitle == pickLinkAttr(linkTags, "search", "title")
        ogSiteName == pickMetaProp(metaTags, "og:site_name")
        s0 == [score |-> 0, reasons |-> << >>]
        s1 == AddSignal(s0, hasExact(twitterAppName, "Medium"), 2,
                        "twitter:app:name:iphone=\"Medium\"")
        s2 == AddSignal(s1, hasExact(twitterAppId, MEDIUM_IOS_APP_ID), 3,
                        "twitter:app:id:iphone=" \o MEDIUM_IOS_APP_ID)
        s3 == AddSignal(s2, hasExact(alIosName, "Medium"), 2,
                        "al:ios:app_name=\"Medium\"")
        s4 == AddSignal(s3, hasExact(alIosId, MEDIUM_IOS_APP_ID), 3,
                        "al:ios:app_store_id=" \o MEDIUM_IOS_APP_ID)
        s5 == AddSignal(s4, hasExact(alAndroidName, "Medium"), 2,
                        "al:android:app_name=\"Medium\"")
        s6 == AddSignal(s5, hasExact(alAndroidPkg, MEDIUM_ANDROID_PKG), 3,
                        "al:android:package=" \o MEDIUM_ANDROID_PKG)
        s7 == AddSignal(s6, anyMatch(altAndroidHref, "MEDIUM_ANDROID_APP_RE"), 3,
                        "link[rel=alternate] android-app://com.medium.reader/https/medium.com/p/...")
        s8 == AddSignal(s7, anyMatch(relAuthor, "/^https:\\/\\/medium\\.com\\/@/i"), 3,
                        "rel=\"author\" -> https://medium.com/@...")
        s9 == AddSignal(s8, \E i \in 1..Len(ldJsonBlocks) : LdJsonAuthorRe(ldJsonBlocks[i]), 2,
                        "LD+JSON contains medium.com/@author")
        s10 == AddSignal(s9, hasExact(osdTitle, "Medium"), 1,
                         "link[rel=\"search\"][title=\"Medium\"]")
        s11 == AddSignal(s10, \E i \in 1..Len(osdHref) : osdHref[i] = "/osd.xml", 1,
                         "link[rel=\"search\"][href=\"/osd.xml\"]")
        s12 == AddSignal(s11, hasExact(ogSiteName, "Medium"), 1,
                         "og:site_name=\"Medium\"")
        s13 == AddSignal(s12, MEDIUM_HEAD_HOSTS_RE(headRawHTML), 1,
                         "Head contains miro/glyph/cdn-images-1.medium.com")
    IN  s13

scoreMediumSignals(headRawHTML) ==
    ScoreParsed(headRawHTML, parseMetaTags(headRawHTML), parseLinkTags(headRawHTML),
                parseScriptTags(headRawHTML))

------------------------------------------------------------------------------
(* Head markup used as input: fragments of a head section, each with the    *)
(* scoring rules (1..13, in the order of scoreMediumSignals) it satisfies.  *)

Fragments ==
    << [html |-> "<meta name=\"twitter:app:name:iphone\" content=\"Medium\">", rules |-> {1}],
       [html |-> "<meta content='828256236' name='twitter:app:id:iphone'>", rules |-> {2}],
       [html |-> "<META PROPERTY=\"AL:IOS:APP_NAME\" CONTENT=\"MEDIUM\">", rules |-> {3}],
       [html |-> "<meta property=\"al:ios:app_store_id\" content=\"828256236\">", rules |-> {4}],
       [html |-> "<meta  property=\"al:android:app_name\"   content=\"medium\" />", rules |-> {5}],
       [html |-> "<meta property=\"al:android:package\" content=\"com.medium.reader\">", rules |-> {6}],
       [html |-> "<link rel=\"alternate\" href=\"android-app://com.medium.reader/https/medium.com/p/abc123\">", rules |-> {7}],
       [html |-> "<link href=\"https://medium.com/@alice\" rel=\"author\">", rules |-> {8}],
       [html |-> "<script type=\"application/ld+json\">{\"author\":{\"url\":\"https://medium.com/@alice\"}}</script>", rules |-> {9}],
       [html |-> "<link rel=\"search\" type=\"application/opensearchdescription+xml\" title=\"Medium\" href=\"/osd.xml\">", rules |-> {10, 11}],
       [html |-> "<meta property=\"og:site_name\" content=\"Medium\">", rules |-> {12}],
       [html |-> "<link rel=\"preconnect\" href=\"glyph.medium.com\">", rules |-> {13}],
       \* a second tag for rule 4: a rule counts once however many tags satisfy it
       [html |-> "<meta content=\"828256236\" property=\"al:ios:app_store_id\">", rules |-> {4}],
       \* recognised tags with other values, and unrelated markup
       [html |-> "<meta property=\"al:ios:app_store_id\" content=\"111111111\">", rules |-> {}],
       [html |-> "<meta property=\"og:site_name\" content=\"Medium Blog\">", rules |-> {}],
       [html |-> "<meta name=\"description\" content=\"A story\"><title>Medium</title>", rules |-> {}],
       \* the host follows "/", which is not one of the pattern's leading characters
       [html |-> "<link rel=\"icon\" href=\"https://miro.medium.com/icon.png\">", rules |-> {}] >>

\* the fragments of E, last first, one per line
RECURSIVE HeadOf(_)
HeadOf(E) ==
    IF E = {} THEN ""
    ELSE LET k == CHOOSE x \in E : \A y \in E : y <= x
         IN  Fragments[k].html \o "\n" \o HeadOf(E \ {k})

AllSignals == 1..12

HeadInputs ==
    {E \in SUBSET (1..Len(Fragments)) : Cardinality(E) <= MaxTags} \cup {AllSignals}

HostAtoms ==
    {"medium.com", "betterhumans.pub", "uxdesign.cc", "example.com", ".", "x",
     "med", "ium", "rare"}

RECURSIVE HostsOfLen(_)
HostsOfLen(n) ==
    IF n = 0 THEN {""}
    ELSE {h \o a : h \in HostsOfLen(n - 1), a \in HostAtoms}

HostInputs == UNION {HostsOfLen(n) : n \in 0..MaxHostParts}

UrlInputs ==
    {s \o h \o p :
        s \in {"https://", "http://", "ftp://", "HTTPS://", "Http://", ""},
        h \in {"medium.com", "blog.example.org:8080", "a.io"},
        p \in {"", "/", "/@alice/post-123", "/p?x=1&y=2#top", "/r?to=http://b.io/"}}

------------------------------------------------------------------------------
(* new URL(url).hostname: the WHATWG parser reduced to what the engine reads. *)
(* A scheme (a letter, then letters, digits, "+", "-", ".") and ":" are       *)
(* required; after "//" the host runs to the first "/", "?" or "#", without   *)
(* userinfo and port, in lower case; http and https need a host.              *)

IsSchemeChar(c) ==
    IsAlpha(c) \/ c \in {"0", "1", "2", "3", "4", "5", "6", "7", "8", "9", "+", "-", "."}

SchemeEnd(url) ==
    LET k == IndexOf(url, ":", 1)
    IN  IF k > 1 /\ IsAlpha(CharAt(url, 1))
              /\ \A i \in 1..(k - 1) : IsSchemeChar(CharAt(url, i))
        THEN k ELSE 0

\* the host in lower case; a special scheme (http, https) needs one
HostResult(host, special) ==
    IF special /\ host = "" THEN [threw |-> TRUE, hostname |-> ""]
    ELSE [threw |-> FALSE, hostname |-> host]

\* hp is host and port: c is where ":" stands, 0 when there is no port
HostBefore(hp, c) == toLowerCase(IF c = 0 THEN hp ELSE SubSeq(hp, 1, c - 1))

ParseHostPort(hp, special) == HostResult(HostBefore(hp, IndexOf(hp, ":", 1)), special)

\* the authority without its userinfo: what follows the last "@"
AfterUserinfo(auth) ==
    SubSeq(auth, LastOf({j \in 1..Len(auth) : CharAt(auth, j) = "@"}) + 1, Len(auth))

\* the authority runs from i to the first "/", "?" or "#", or to the end
AuthorityEnd(url, e) == IF e = 0 THEN Len(url) + 1 ELSE e

Authority(url, i) ==
    SubSeq(url, i,
           AuthorityEnd(url, FirstOf({j \in i..Len(url) : CharAt(url, j) \in {"/", "?", "#"}})) - 1)

\* k is where the ":" of the scheme stands, 0 when there is no scheme
ParseAfterScheme(url, k) ==
    IF k = 0 THEN [threw |-> TRUE, hostname |-> ""]
    ELSE IF ~At(url, k + 1, "//") THEN [threw |-> FALSE, hostname |-> ""]
    ELSE ParseHostPort(AfterUserinfo(Authority(url, k + 3)),
                       toLowerCase(SubSeq(url, 1, k - 1)) \in {"http", "https"})

ParseURL(url) == ParseAfterScheme(url, SchemeEnd(url))

------------------------------------------------------------------------------
(* The environment of the engine: callers' URLs, servers' answers, the clock *)

Urls ==
    {"https://a.io/p1", "HTTP://A.io:8080/p2?q=1",
     "https://medium.com/@alice/post-123", "not a url"}

BodyNoHead == "<html><body>Not here</body></html>"

\* fragments for rules 2, 4 and 12: 3 + 3 + 1
BodyScore7 == "<html><head>\n" \o HeadOf({2, 4, 11}) \o "</head><body></body></html>"

\* the same and rule 13: 3 + 3 + 1 + 1
BodyScore8 == "<html><HEAD lang=\"en\">\n" \o HeadOf({2, 4, 11, 12}) \o "</HEAD><body></body></html>"

Bodies == {BodyNoHead, BodyScore7, BodyScore8}

Statuses == {200, 404}

\* Response.ok
ResponseOk(status) == status >= 200 /\ status <= 299

Calls == 1..MaxCalls

\* the functions of the engine on the finite inputs above, evaluated once
HostnameTable == [u \in Urls |-> ParseURL(u)]

HeadTable == [b \in Bodies |-> textBetweenHeadTags(b)]

ScoreTable ==
    [h \in {textBetweenHeadTags(b) : b \in Bodies} \ {""} |-> scoreMediumSignals(h)]

DirectTable ==
    [h \in {ParseURL(u).hostname : u \in Urls} |-> isDirectMediumDomain(h)]

------------------------------------------------------------------------------
(* State of one asynchronous call *)

NoEvent == [kind |-> "none", status |-> 0, body |-> ""]

NoFetch == [ok |-> FALSE, status |-> 0, headHTML |-> ""]

NoResult == [isMediumLikely |-> FALSE, score |-> 0, reasons |-> << >>]

IdleCall ==
    [pc |-> "idle", api |-> "", url |-> "", threshold |-> 0, hostname |-> "",
     now |-> 0, timer |-> FALSE, ev |-> NoEvent, fh |-> NoFetch,
     outcome |-> "none", result |-> NoResult, ret |-> FALSE, path |-> "",
     alias |-> "", fetches |-> 0, gets |-> 0, sets |-> 0]

InFlight(c) == calls[c].pc \in {"fetch", "text", "resume"}

\* no continuation of a settled await is waiting: such a continuation is a
\* microtask and runs before the next task, timer or invocation
Quiescent == \A c \in Calls : calls[c].pc # "resume"

\* a call takes the first slot that holds no call in flight
FreeSlot ==
    IF \A c \in Calls : InFlight(c) THEN 0
    ELSE Min({c \in Calls : ~InFlight(c)})

------------------------------------------------------------------------------
(* HeadFetcher *)

\* what the promise of fetchHeadHTML settles with, given what the network did:
\* a body read to the end, or a rejection (network error, abort) that is caught
fetchHeadHTML_OkAlways(ev) ==
    IF ev.kind = "body"
    THEN [ok |-> TRUE, status |-> ev.status,
          headHTML |-> HeadTable[ev.body]]
    ELSE [ok |-> FALSE, status |-> 0, headHTML |-> ""]

fetchHeadHTML(ev) ==
    IF ev.kind = "body"
    THEN [ok |-> ResponseOk(ev.status), status |-> ev.status,
          headHTML |-> HeadTable[ev.body]]
    ELSE [ok |-> FALSE, status |-> 0, headHTML |-> ""]

------------------------------------------------------------------------------
(* CacheStore *)

\* the key of detectionCache.get and detectionCache.set
CacheKey(url, hostname) == hostname

Fresh_Inclusive(cached, now) == now - cached.ts <= CACHE_TTL_MS

\* now - cached.ts < CACHE_TTL_MS
Fresh(cached, now) == now - cached.ts < CACHE_TTL_MS

CacheSet_Only(cache, key, entry) == [k \in {key} |-> entry]

CacheSet_IfAbsent(cache, key, entry) ==
    [k \in DOMAIN cache \cup {key} |-> IF k \in DOMAIN cache THEN cache[k] ELSE entry]

\* detectionCache.set(key, entry)
CacheSet(cache, key, entry) ==
    [k \in DOMAIN cache \cup {key} |-> IF k = key THEN entry ELSE cache[k]]

------------------------------------------------------------------------------
(* Classifier *)

IsMediumLikely_Strict(score, threshold) == score > threshold

\* score >= threshold
IsMediumLikely(score, threshold) == score >= threshold

\* try { hostname = new URL(url).hostname } catch { return invalid URL }
ParseCaught(pu) == [threw |-> FALSE, invalid |-> pu.threw, hostname |-> pu.hostname]

detectParse_NoCatch(url) ==
    [threw |-> HostnameTable[url].threw, invalid |-> FALSE,
     hostname |-> HostnameTable[url].hostname]

detectParse(url) == ParseCaught(HostnameTable[url])

\* the first lines of isMediumURL: "invalid" (the parse threw, caught: false),
\* "direct" (allowlisted: true) or "detect" (detectMediumPublicationByHead runs)
BranchOf(pu) ==
    IF pu.threw THEN "invalid"
    ELSE IF DirectTable[pu.hostname] THEN "direct"
    ELSE "detect"

isMediumURLBegin_NoAllowlist(url) ==
    IF HostnameTable[url].threw THEN "invalid" ELSE "detect"

isMediumURLBegin(url) == BranchOf(HostnameTable[url])

\* the result of a failed or empty probe
MissResult ==
    [isMediumLikely |-> FALSE, score |-> 0, reasons |-> <<"fetch failed or empty head">>]

InvalidResult == [isMediumLikely |-> FALSE, score |-> 0, reasons |-> <<"invalid URL">>]

\* the probe failed or gave no head: the branch of line 476
ProbeMissed(fh) == ~fh.ok \/ fh.headHTML = ""

\* lines 476-501 of detectMediumPublicationByHead: the result of a resolved miss
ScoredResult(sc, threshold) ==
    [isMediumLikely |-> IsMediumLikely(sc.score, threshold),
     score |-> sc.score, reasons |-> sc.reasons]

detectResult(fh, threshold) ==
    IF ProbeMissed(fh)
    THEN MissResult
    ELSE ScoredResult(ScoreTable[fh.headHTML], threshold)

\* the detectionCache.set of lines 482 and 495, whichever branch runs
detectWrite_SkipMiss(cache, key, fh, entry) ==
    IF ProbeMissed(fh) THEN cache ELSE CacheSet(cache, key, entry)

detectWrite(cache, key, fh, entry) == CacheSet(cache, key, entry)

CacheEntry_WrittenAt(now, result) ==
    [ts |-> clock, isMedium |-> result.isMediumLikely, score |-> result.score,
     reasons |-> result.reasons]

\* { ts: now, isMedium, score, reasons }: now is the reading of line 466
CacheEntry(now, result) ==
    [ts |-> now, isMedium |-> result.isMediumLikely, score |-> result.score,
     reasons |-> result.reasons]

------------------------------------------------------------------------------
(* Actions *)

EngineInit ==
    /\ detectionCache = << >>
    /\ clock = 0
    /\ ticks = 0
    /\ starts = 0
    /\ calls = [c \in Calls |-> IdleCall]
    /\ returned = IdleCall
    /\ lastWrite = << >>
    /\ overlapped = FALSE

\* The hostname whose cache entry holds the very array that the returned
\* result has as its reasons, "" if the result has an array of its own: a hit
\* returns cached.reasons.slice(), a copy (line 471); a resolved miss stores
\* reasons: miss.reasons (line 486) or reasons (line 499) and returns the same
\* object (lines 488, 501)
ReasonsSharedWith(path, hostname) == IF path = "miss" THEN hostname ELSE ""

\* the cached entry as the result a hit returns
HitResult(cached) ==
    [isMediumLikely |-> cached.isMedium, score |-> cached.score, reasons |-> cached.reasons]

\* The call from its invocation to its first await, or to its return: branch is
\* what isMediumURL does first, dp the parse of detectMediumPublicationByHead,
\* key its cache key
CallBegun(api, url, threshold, branch, dp, key, base) ==
    IF branch = "invalid" THEN
        [base EXCEPT !.path = "invalid", !.ret = FALSE]
    ELSE IF branch = "direct" THEN
        [base EXCEPT !.path = "direct", !.ret = TRUE]
    ELSE IF dp.threw THEN
        IF api = "isMediumURL"
        THEN [base EXCEPT !.path = "threw", !.ret = FALSE]
        ELSE [base EXCEPT !.path = "threw", !.outcome = "rejected"]
    ELSE IF dp.invalid THEN
        [base EXCEPT !.path = "invalid", !.result = InvalidResult]
    ELSE IF key \in DOMAIN detectionCache /\ Fresh(detectionCache[key], clock) THEN
        [base EXCEPT !.path = "hit", !.gets = 1,
                     !.result = HitResult(detectionCache[key]),
                     !.ret = detectionCache[key].isMedium]
    ELSE
        [base EXCEPT !.pc = "fetch", !.path = "miss", !.hostname = dp.hostname,
                     !.threshold = threshold,
                     !.now = clock, !.gets = 1, !.fetches = 1,
                     !.timer = TRUE, !.outcome = "pending"]

CallParsed(api, url, threshold, branch, dp) ==
    CallBegun(api, url, threshold, branch, dp, CacheKey(url, dp.hostname),
              [IdleCall EXCEPT !.pc = "done", !.api = api, !.url = url,
                               !.threshold = threshold, !.outcome = "resolved"])

\* the call returned at once, or it occupies slot c until it returns
Enter(c, nc) ==
    IF nc.pc = "done"
    THEN returned' = nc /\ UNCHANGED calls
    ELSE calls' = [calls EXCEPT ![c] = nc] /\ returned' = IdleCall

\* A caller invokes isMediumURL(url) or detectMediumPublicationByHead(url,
\* { threshold }): everything up to the first await, or up to the return.
Start(c, api, url, threshold) ==
    /\ c = FreeSlot
    /\ Quiescent
    /\ starts < MaxStarts
    /\ starts' = starts + 1
    /\ overlapped' = (overlapped \/ \E d \in Calls : InFlight(d))
    /\ Enter(c, CallParsed(api, url, threshold,
                           IF api = "isMediumURL" THEN isMediumURLBegin(url) ELSE "detect",
                           detectParse(url)))
    /\ UNCHANGED <<detectionCache, clock, ticks, lastWrite, op, hostVars>>

\* what the network did is a failure (an error, an abort, a status outside
\* 200..299)
FetchFailed(ev) == ev.kind \in {"network error", "abort"} \/ ~ResponseOk(ev.status)

Settled_Retry(call, ev) ==
    IF FetchFailed(ev) /\ call.fetches < 2
    THEN [call EXCEPT !.pc = "fetch", !.fetches = @ + 1]
    ELSE [call EXCEPT !.pc = "resume", !.ev = ev, !.timer = FALSE,
                      !.fh = fetchHeadHTML(ev)]

Settled_TimerLeft(call, ev) ==
    [call EXCEPT !.pc = "resume", !.ev = ev, !.fh = fetchHeadHTML(ev)]

\* the call once fetchHeadHTML has returned: the timer is cleared (finally) and
\* the caller holds what it returned; there is no second fetch
Settled(call, ev) ==
    [call EXCEPT !.pc = "resume", !.ev = ev, !.timer = FALSE,
                 !.fh = fetchHeadHTML(ev)]

\* fetchHeadHTML settles; the caller resumes later
Settle(c, ev) ==
    /\ returned' = IdleCall
    /\ calls' = [calls EXCEPT ![c] = Settled(calls[c], ev)]

\* fetch() resolves with a response; res.text() is awaited next
FetchRespond(c, status) ==
    /\ calls[c].pc = "fetch"
    /\ Quiescent
    /\ calls' = [calls EXCEPT ![c].pc = "text",
                              ![c].ev = [kind |-> "response", status |-> status, body |-> ""]]
    /\ returned' = IdleCall
    /\ UNCHANGED <<detectionCache, clock, ticks, starts, lastWrite, overlapped, op, hostVars>>

\* fetch() rejects: a network error
FetchFail(c) ==
    /\ calls[c].pc = "fetch"
    /\ Quiescent
    /\ Settle(c, [kind |-> "network error", status |-> 0, body |-> ""])
    /\ UNCHANGED <<detectionCache, clock, ticks, starts, lastWrite, overlapped, op, hostVars>>

\* res.text() resolves with the body
TextRead(c, body) ==
    /\ calls[c].pc = "text"
    /\ Quiescent
    /\ Settle(c, [kind |-> "body", status |-> calls[c].ev.status, body |-> body])
    /\ UNCHANGED <<detectionCache, clock, ticks, starts, lastWrite, overlapped, op, hostVars>>

\* res.text() rejects: the connection broke while the body was read
TextFail(c) ==
    /\ calls[c].pc = "text"
    /\ Quiescent
    /\ Settle(c, [kind |-> "network error", status |-> 0, body |-> ""])
    /\ UNCHANGED <<detectionCache, clock, ticks, starts, lastWrite, overlapped, op, hostVars>>

\* the timer of setTimeout(() => controller.abort(), timeoutMs) fires
Abort(c) ==
    /\ calls[c].pc \in {"fetch", "text"}
    /\ Quiescent
    /\ calls[c].timer
    /\ clock - calls[c].now >= FETCH_TIMEOUT_MS
    /\ Settle(c, [kind |-> "abort", status |-> 0, body |-> ""])
    /\ UNCHANGED <<detectionCache, clock, ticks, starts, lastWrite, overlapped, op, hostVars>>

\* the fetch failed, or its body has no head markup
ProbeFailed(ev) == FetchFailed(ev) \/ HeadTable[ev.body] = ""

\* a call that returned: its arguments and what it did stay, its locals are gone
Returned(call) ==
    [call EXCEPT !.pc = "done", !.hostname = "", !.now = 0,
                 !.ev = NoEvent, !.fh = NoFetch]

\* the number of the write that replaces lastWrite's record of hostname h
WriteNo(h) == IF h \in DOMAIN lastWrite THEN lastWrite[h].n + 1 ELSE 1

\* the miss resolved with r: the cache is written and the call returns r
Resolve(call, r) ==
    /\ detectionCache' =
           detectWrite(detectionCache, CacheKey(call.url, call.hostname),
                       call.fh, CacheEntry(call.now, r))
    /\ returned' =
           [Returned(call) EXCEPT !.outcome = "resolved", !.result = r,
                                  !.ret = r.isMediumLikely, !.sets = 1,
                                  !.alias = ReasonsSharedWith(call.path, call.hostname)]
    /\ lastWrite' =
           [h \in DOMAIN lastWrite \cup {call.hostname} |->
               IF h = call.hostname
               THEN [at |-> call.now, when |-> clock, url |-> call.url, res |-> r,
                     failed |-> ProbeFailed(call.ev), n |-> WriteNo(h)]
               ELSE lastWrite[h]]

\* detectMediumPublicationByHead continues after await fetchHeadHTML(url), to
\* its return (and, under isMediumURL, to the return of isMediumURL)
Resume(c) ==
    /\ calls[c].pc = "resume"
    /\ Resolve(calls[c], detectResult(calls[c].fh, calls[c].threshold))
    /\ calls' = [calls EXCEPT ![c] = IdleCall]
    /\ UNCHANGED <<clock, ticks, starts, overlapped, op, hostVars>>

\* time passes; an armed abort timer fires when it is due, not later, and the
\* continuation of a settled await (a microtask) runs before time passes. The
\* bound on the clock stops it only while no timer is armed.
Tick(d) ==
    /\ ticks < MaxTicks \/ (d = FETCH_TIMEOUT_MS /\ \E c \in Calls : calls[c].timer)
    /\ Quiescent
    /\ \A c \in Calls : calls[c].timer => clock + d <= calls[c].now + FETCH_TIMEOUT_MS
    /\ clock' = clock + d
    /\ ticks' = IF ticks < MaxTicks THEN ticks + 1 ELSE ticks
    /\ returned' = IdleCall
    /\ UNCHANGED <<detectionCache, starts, calls, lastWrite, overlapped, op, hostVars>>

\* result.reasons.push(...) on the array a: the array object is changed in
\* place, for everything that holds it
Push(a) == Append(a, "edited by the caller")

\* the cache after a push onto the array shared with the entry of hostname h
PushedInCache(cache, h) ==
    IF h \in DOMAIN cache THEN [cache EXCEPT ![h].reasons = Push(@)] ELSE cache

\* The caller of detectMediumPublicationByHead changes the reasons of the
\* result it has just been given.
MutateReasons ==
    /\ returned.pc = "done"
    /\ returned.api = "detect"
    /\ returned.outcome = "resolved"
    /\ returned' = [returned EXCEPT !.pc = "edited", !.result.reasons = Push(@)]
    /\ detectionCache' = PushedInCache(detectionCache, returned.alias)
    /\ UNCHANGED <<clock, ticks, starts, calls, lastWrite, overlapped, op, hostVars>>

------------------------------------------------------------------------------
(* The host integration: action button, context menu, badge, tabs *)

Clicks == 1..MaxClicks

\* const defaultConfig
defaultConfig == [openInNewTab |-> TRUE, openLinksOnButtonClick |-> TRUE]

\* what chrome.storage.sync may hold
Configs == [openInNewTab : BOOLEAN, openLinksOnButtonClick : BOOLEAN]

\* the badge texts: Dots is "...", Check stands for U+2713, Cross for U+2717
Dots == "..."

Check == "v"

Cross == "x"

NoHandler ==
    [pc |-> "idle", kind |-> "", url |-> "", isMedium |-> FALSE, newUrl |-> "",
     loading |-> FALSE, final |-> "", note |-> ""]

\* setBadge(text, color)
setBadge(u, text, color) == [u EXCEPT !.badge = text, !.color = color]

\* clearBadge()
clearBadge(u) == [u EXCEPT !.badge = ""]

\* showLoadingBadge()
showLoadingBadge(u) == setBadge(u, Dots, "#FFA500")

\* showSuccessBadge(): the badge and setTimeout(clearBadge, 2000)
showSuccessBadge(u) == [setBadge(u, Check, "#4CAF50") EXCEPT !.badgeTimers = @ + 1]

\* showErrorBadge(): the badge and setTimeout(clearBadge, 3000)
showErrorBadge(u) == [setBadge(u, Cross, "#F44336") EXCEPT !.badgeTimers = @ + 1]

\* showNotification(title, message, type), with chrome.notifications available;
\* the notification is cleared by its own timer after 5 seconds
showNotification(u) == [u EXCEPT !.notifications = @ + 1]

handleError_NoBadge(u, notify) == IF notify THEN showNotification(u) ELSE u

\* handleError(context, error, notify)
handleError(u, notify) ==
    IF notify THEN showNotification(showErrorBadge(u)) ELSE showErrorBadge(u)

\* what isMediumURL(url) may resolve to: true for an allowlisted hostname, false
\* for an unparsable URL, otherwise what the probe of the page gives
isMediumURLAnswers(url) ==
    IF isMediumURLBegin(url) = "direct" THEN {TRUE}
    ELSE IF isMediumURLBegin(url) = "invalid" THEN {FALSE}
    ELSE BOOLEAN

ButtonAllowed_Always(kind, config) == TRUE

\* if (config.openLinksOnButtonClick), asked by the action button only
ButtonAllowed(kind, config) == kind = "menu" \/ config.openLinksOnButtonClick

HostIdle ==
    /\ handlers = [i \in Clicks |-> NoHandler]
    /\ clicks = 0
    /\ ui = [badge |-> "", color |-> "", badgeTimers |-> 0, notifications |-> 0]
    /\ tabs = << >>

\* the handler of click i ends: the badge it leaves is recorded
Ended(h, u, note) == [h EXCEPT !.pc = "done", !.final = u.badge, !.note = note]

\* the listener from the click to its first await, or to its return
ClickBegun(kind, url, i) ==
    /\ clicks < MaxClicks
    /\ i = clicks + 1
    /\ clicks' = i
    /\ ui' = IF url = "" THEN showNotification(ui) ELSE showLoadingBadge(ui)
    /\ handlers' =
           [handlers EXCEPT ![i] =
               IF url = ""
               THEN [NoHandler EXCEPT !.pc = "done", !.kind = kind,
                                      !.note = "Cannot Open in Freedium"]
               ELSE [NoHandler EXCEPT !.pc = "classify", !.kind = kind, !.url = url,
                                      !.loading = TRUE]]
    /\ UNCHANGED <<stored, tabs, engineVars, op>>

\* chrome.action.onClicked: url is tab.url, "" when there is no tab or no URL
ActionClicked(url) == ClickBegun("action", url, clicks + 1)

\* chrome.contextMenus.onClicked: url is tab?.url or info.linkUrl, by menu item
ContextMenuClicked(url) == ClickBegun("menu", url, clicks + 1)

\* await isMediumURL(url) resolves with isMedium: false ends the handler with a
\* notification and the error badge; true goes on to await getConfig(), in the
\* listener (action button) or in openInFreedium (context menu)
Classified(i, isMedium) ==
    /\ handlers[i].pc = "classify"
    /\ isMedium \in isMediumURLAnswers(handlers[i].url)
    /\ ui' = IF isMedium THEN ui ELSE showErrorBadge(showNotification(ui))
    /\ handlers' =
           [handlers EXCEPT ![i] =
               IF isMedium
               THEN [@ EXCEPT !.pc = "config", !.isMedium = TRUE]
               ELSE Ended(@, showErrorBadge(showNotification(ui)),
                          "Not a Medium Article")]
    /\ UNCHANGED <<clicks, stored, tabs, engineVars, op>>

\* an awaited call rejects: the catch of the listener or of openInFreedium
\* calls handleError(context, error, true)
Failed(i) ==
    /\ ui' = handleError(ui, TRUE)
    /\ handlers' = [handlers EXCEPT ![i] = Ended(@, handleError(ui, TRUE), "Freedium Error")]

\* getConfig() rejects (chrome.runtime.lastError)
ConfigFailed(i) ==
    /\ handlers[i].pc = "config"
    /\ Failed(i)
    /\ UNCHANGED <<clicks, stored, tabs, engineVars, op>>

\* getConfig() resolves with the stored configuration: the action button stops
\* if openLinksOnButtonClick is off; otherwise openInFreedium shows the loading
\* badge and openUrl(newUrl, config.openInNewTab) begins
ConfigRead(i) ==
    /\ handlers[i].pc = "config"
    /\ ui' = IF ButtonAllowed(handlers[i].kind, stored)
             THEN showLoadingBadge(ui)
             ELSE showErrorBadge(showNotification(ui))
    /\ handlers' =
           [handlers EXCEPT ![i] =
               IF ButtonAllowed(@.kind, stored)
               THEN [@ EXCEPT !.pc = IF stored.openInNewTab THEN "create" ELSE "query",
                              !.newUrl = convertToFreediumUrl(handlers[i].url)]
               ELSE Ended(@, showErrorBadge(showNotification(ui)), "Freedium")]
    /\ UNCHANGED <<clicks, stored, tabs, engineVars, op>>

\* chrome.tabs.query({ active, currentWindow }) resolves: with an active tab
\* the tab is updated, with none a tab is created
QueryDone(i, active) ==
    /\ handlers[i].pc = "query"
    /\ handlers' = [handlers EXCEPT ![i].pc = IF active THEN "update" ELSE "create"]
    /\ UNCHANGED <<clicks, stored, ui, tabs, engineVars, op>>

\* chrome.tabs.query rejects
QueryFailed(i) ==
    /\ handlers[i].pc = "query"
    /\ Failed(i)
    /\ UNCHANGED <<clicks, stored, tabs, engineVars, op>>

\* chrome.tabs.create or chrome.tabs.update resolves: openInFreedium shows the
\* success badge and the handler ends
TabDone(i) ==
    /\ handlers[i].pc \in {"create", "update"}
    /\ tabs' = Append(tabs, [url |-> handlers[i].newUrl, how |-> handlers[i].pc,
                             click |-> i])
    /\ ui' = showSuccessBadge(ui)
    /\ handlers' = [handlers EXCEPT ![i] = Ended(@, showSuccessBadge(ui), "")]
    /\ UNCHANGED <<clicks, stored, engineVars, op>>

\* chrome.tabs.create or chrome.tabs.update rejects
TabFailed(i) ==
    /\ handlers[i].pc \in {"create", "update"}
    /\ Failed(i)
    /\ UNCHANGED <<clicks, stored, tabs, engineVars, op>>

\* a timer of setTimeout(clearBadge, ...) fires
BadgeTimerFires ==
    /\ ui.badgeTimers > 0
    /\ ui' = clearBadge([ui EXCEPT !.badgeTimers = @ - 1])
    /\ UNCHANGED <<handlers, clicks, stored, tabs, engineVars, op>>

\* the timer of a notification fires: chrome.notifications.clear(notificationId)
NotificationCleared ==
    /\ ui.notifications > 0
    /\ ui' = [ui EXCEPT !.notifications = @ - 1]
    /\ UNCHANGED <<handlers, clicks, stored, tabs, engineVars, op>>

------------------------------------------------------------------------------
(* One application of a pure function to an input drawn from the sets above *)

NoOp == [fn |-> "none", arg |-> "", elems |-> {}, done |-> TRUE,
         b |-> FALSE, s |-> "", score |-> 0, reasons |-> << >>]

PureInit ==
    /\ EngineInit
    /\ HostIdle
    /\ stored = defaultConfig
    /\ op \in {[NoOp EXCEPT !.fn = "scoreMediumSignals", !.arg = HeadOf(E),
                         !.elems = E, !.done = FALSE] : E \in HeadInputs}
           \cup {[NoOp EXCEPT !.fn = "isDirectMediumDomain", !.arg = h,
                              !.done = FALSE] : h \in HostInputs}
           \cup {[NoOp EXCEPT !.fn = "convertToFreediumUrl", !.arg = u,
                              !.done = FALSE] : u \in UrlInputs}

Scored(o, r) == [o EXCEPT !.done = TRUE, !.score = r.score, !.reasons = r.reasons]

ApplyScore ==
    /\ op.fn = "scoreMediumSignals" /\ ~op.done
    /\ op' = Scored(op, scoreMediumSignals(op.arg))
    /\ UNCHANGED <<engineVars, hostVars>>

ApplyIsDirect ==
    /\ op.fn = "isDirectMediumDomain" /\ ~op.done
    /\ op' = [op EXCEPT !.done = TRUE, !.b = isDirectMediumDomain(op.arg)]
    /\ UNCHANGED <<engineVars, hostVars>>

ApplyConvert ==
    /\ op.fn = "convertToFreediumUrl" /\ ~op.done
    /\ op' = [op EXCEPT !.done = TRUE, !.s = convertToFreediumUrl(op.arg)]
    /\ UNCHANGED <<engineVars, hostVars>>

PureNext == ApplyScore \/ ApplyIsDirect \/ ApplyConvert

Init == EngineInit /\ HostIdle /\ stored = defaultConfig /\ op = NoOp

\* what the network, the timers, the event loop and the clock do to calls in
\* flight; the clock advances by the fetch timeout, or by what is left of the
\* TTL after it
Progress ==
    \/ \E c \in Calls, st \in Statuses : FetchRespond(c, st)
    \/ \E c \in Calls : FetchFail(c)
    \/ \E c \in Calls, b \in Bodies : TextRead(c, b)
    \/ \E c \in Calls : TextFail(c)
    \/ \E c \in Calls : Abort(c)
    \/ \E c \in Calls : Resume(c)
    \/ \E d \in {FETCH_TIMEOUT_MS, CACHE_TTL_MS - FETCH_TIMEOUT_MS} : Tick(d)

\* callers that pass no options: the threshold is the default
Next ==
    \/ \E c \in Calls, url \in Urls, api \in {"isMediumURL", "detect"} :
          Start(c, api, url, MEDIUM_DETECTION_THRESHOLD)
    \/ Progress

Spec == Init /\ [][Next]_vars

\* callers of detectMediumPublicationByHead that may pass { threshold }, the
\* default or one less; isMediumURL passes none (line 527)
NextOverride ==
    \/ \E c \in Calls, url \in Urls,
          t \in {MEDIUM_DETECTION_THRESHOLD - 1, MEDIUM_DETECTION_THRESHOLD} :
             Start(c, "detect", url, t)
    \/ \E c \in Calls, url \in Urls :
          Start(c, "isMediumURL", url, MEDIUM_DETECTION_THRESHOLD)
    \/ Progress

SpecOverride == Init /\ [][NextOverride]_vars

\* The event loop: a timer that is due fires, a continuation whose promise has
\* settled runs, and time passes. The network owes nothing: a response or a
\* body may never come.
Fairness ==
    /\ \A c \in Calls : WF_vars(Abort(c))
    /\ \A c \in Calls : WF_vars(Resume(c))
    /\ WF_vars(Tick(FETCH_TIMEOUT_MS))

SpecLive == Init /\ [][Next]_vars /\ Fairness

\* callers that change the results they are given
NextAlias == Next \/ MutateReasons

SpecAlias == Init /\ [][NextAlias]_vars

\* the extension with any stored configuration, before the first click
HostInit == EngineInit /\ HostIdle /\ stored \in Configs /\ op = NoOp

HostNext ==
    \/ \E url \in Urls \cup {""} : ActionClicked(url)
    \/ \E url \in Urls \cup {""} : ContextMenuClicked(url)
    \/ \E i \in Clicks, isMedium \in BOOLEAN : Classified(i, isMedium)
    \/ \E i \in Clicks : ConfigRead(i)
    \/ \E i \in Clicks : ConfigFailed(i)
    \/ \E i \in Clicks, active \in BOOLEAN : QueryDone(i, active)
    \/ \E i \in Clicks : QueryFailed(i)
    \/ \E i \in Clicks : TabDone(i)
    \/ \E i \in Clicks : TabFailed(i)
    \/ BadgeTimerFires
    \/ NotificationCleared

SpecHost == HostInit /\ [][HostNext]_vars

SpecPure == PureInit /\ [][PureNext]_vars

------------------------------------------------------------------------------
(* Properties of the pure functions, under SpecPure *)

\* the rules of the scorer as the specification lists them: weight and reason
RuleWeight == <<2, 3, 2, 3, 2, 3, 3, 3, 2, 1, 1, 1, 1>>

RuleReason ==
    << "twitter:app:name:iphone=\"Medium\"",
       "twitter:app:id:iphone=828256236",
       "al:ios:app_name=\"Medium\"",
       "al:ios:app_store_id=828256236",
       "al:android:app_name=\"Medium\"",
       "al:android:package=com.medium.reader",
       "link[rel=alternate] android-app://com.medium.reader/https/medium.com/p/...",
       "rel=\"author\" -> https://medium.com/@...",
       "LD+JSON contains medium.com/@author",
       "link[rel=\"search\"][title=\"Medium\"]",
       "link[rel=\"search\"][href=\"/osd.xml\"]",
       "og:site_name=\"Medium\"",
       "Head contains miro/glyph/cdn-images-1.medium.com" >>

\* the rules that the head built from the fragments of E satisfies
RulesOf(E) == UNION {Fragments[k].rules : k \in E}

RECURSIVE WeightFrom(_, _)
WeightFrom(R, i) ==
    IF i > Len(RuleWeight) THEN 0
    ELSE (IF i \in R THEN RuleWeight[i] ELSE 0) + WeightFrom(R, i + 1)

RECURSIVE ReasonsFrom(_, _)
ReasonsFrom(R, i) ==
    IF i > Len(RuleReason) THEN << >>
    ELSE (IF i \in R THEN <<RuleReason[i]>> ELSE << >>) \o ReasonsFrom(R, i + 1)

ScoreAgrees(o, R) ==
    /\ o.score = WeightFrom(R, 1)
    /\ o.score \in 0..27
    /\ o.reasons = ReasonsFrom(R, 1)
    /\ Len(o.reasons) = Cardinality(R)
    /\ (R = {} => o.score = 0 /\ o.reasons = << >>)
    /\ (R = {4} => o.score = 3)

\* C6: the score of scoreMediumSignals is the sum of the weights of exactly the
\* satisfied rules (between 0 and 27), the reasons are those of the satisfied
\* rules, one each, in rule order; no signal gives 0 and no reasons; a matching
\* al:ios:app_store_id tag alone gives 3.
C6_ScoreIsSumOfSatisfiedRules ==
    (op.fn = "scoreMediumSignals" /\ op.done) => ScoreAgrees(op, RulesOf(op.elems))

\* a head whose only signal is the al:ios:app_store_id tag scored 3
C6_AppStoreIdAloneScoresThree ==
    /\ op.fn = "scoreMediumSignals" /\ op.done
    /\ op.elems = {4}
    /\ op.score = 3
    /\ op.reasons = <<"al:ios:app_store_id=828256236">>

\* h is a known domain, or a name followed by "." and a known domain
KnownOrSubdomain(h, d) ==
    \/ h = d
    \/ /\ Len(h) > Len(d)
       /\ SubSeq(h, Len(h) - Len(d) + 1, Len(h)) = d
       /\ SubSeq(h, Len(h) - Len(d), Len(h) - Len(d)) = "."

ContainsMedium(h) == \E i \in 1..(Len(h) - 5) : SubSeq(h, i, i + 5) = "medium"

DirectByTheRule(h) ==
    \/ \E k \in DOMAIN mediumDomains : KnownOrSubdomain(h, mediumDomains[k])
    \/ ContainsMedium(h)

\* no call was made and the cache is as it was
EngineUntouched ==
    /\ detectionCache = << >>
    /\ starts = 0
    /\ \A c \in Calls : calls[c] = IdleCall

\* C7: isDirectMediumDomain(hostname) is true exactly when the hostname is a
\* known Medium domain, ends with "." and a known domain, or contains "medium";
\* false otherwise (example.com, a known domain without the separating dot);
\* it touches neither the network nor the cache.
C7_DirectDomainRule ==
    (op.fn = "isDirectMediumDomain" /\ op.done) =>
        /\ op.b = DirectByTheRule(op.arg)
        /\ (op.arg = "example.com" => ~op.b)
        /\ EngineUntouched

\* a host that ends with a known domain without the dot was answered false
C7_SuffixWithoutDotIsNotDirect ==
    /\ op.fn = "isDirectMediumDomain" /\ op.done
    /\ op.arg = "xbetterhumans.pub"
    /\ ~op.b

\* the input without its scheme prefix: the scheme, ":" and "//"
StripAt(url, k) ==
    IF k > 0 /\ At(url, k + 1, "//") THEN SubSeq(url, k + 3, Len(url)) ELSE url

StripScheme(url) == StripAt(url, SchemeEnd(url))

\* C9: convertToFreediumUrl(url) is the mirror base followed by the input with
\* its scheme prefix stripped, for every input URL; no state is read or written.
C9_StripsTheSchemeOfEveryUrl ==
    (op.fn = "convertToFreediumUrl" /\ op.done) =>
        /\ op.s = "https://freedium-mirror.cfd/" \o StripScheme(op.arg)
        /\ EngineUntouched

------------------------------------------------------------------------------
(* Properties of the engine, under Spec *)

\* this step is the invocation of a call
Started == starts' = starts + 1

\* the call this step invoked: returned at once, or in flight in the free slot
NewCall == IF calls' = calls THEN returned' ELSE calls'[FreeSlot]

\* this step is the return of the call in slot c after its fetch
ResumeOf(c) == calls[c].pc = "resume" /\ calls'[c].pc = "idle"

\* the call runs the cache lookup of detectMediumPublicationByHead: its URL
\* parses (pu) and isMediumURL did not answer from the allowlist
Looks(call, pu) ==
    /\ ~pu.threw
    /\ call.api = "detect" \/ ~isDirectMediumDomain(pu.hostname)

\* w is the last resolved miss of the hostname: within ten minutes of that
\* call's clock reading the answer is w's, without a fetch; after, a fetch
ServedFrom(call, w) ==
    IF clock - w.at < 600000
    THEN /\ call.pc = "done"
         /\ call.outcome = "resolved"
         /\ call.fetches = 0
         /\ call.result = w.res
    ELSE /\ call.pc = "fetch"
         /\ call.fetches = 1

OnceInWindow(call, pu) ==
    Looks(call, pu) =>
        IF pu.hostname \in DOMAIN lastWrite
        THEN ServedFrom(call, lastWrite[pu.hostname])
        ELSE call.pc = "fetch" /\ call.fetches = 1

\* C1: among non-overlapping calls on URLs of one hostname, a call made within
\* the TTL window (10 minutes) of the call that resolved a miss fetches nothing
\* and returns the cached isMediumLikely, score and reasons; a call made after
\* the window (or before any miss was resolved) fetches.
C1_OneFetchPerWindow ==
    [][(Started /\ ~overlapped') => OnceInWindow(NewCall, HostnameTable[NewCall.url])]_vars

HitOnOtherUrl(call, h) ==
    /\ call.path = "hit"
    /\ call.fetches = 0
    /\ h \in DOMAIN lastWrite
    /\ lastWrite[h].url # call.url
    /\ call.result = lastWrite[h].res

\* a call was answered from the entry that a call on another URL of the same
\* hostname had written
C1_SecondUrlServedFromCache ==
    /\ ~overlapped
    /\ returned.path = "hit"
    /\ HitOnOtherUrl(returned, HostnameTable[returned.url].hostname)

IsNegative(call) ==
    /\ call.outcome = "resolved"
    /\ ~call.ret
    /\ ~call.result.isMediumLikely
    /\ call.result.score = 0

\* the failed probe of call returns ret and leaves the cache as cache
FailedProbeCached(call, ret, cache) ==
    ProbeFailed(call.ev) =>
        /\ IsNegative(ret)
        /\ call.hostname \in DOMAIN cache
        /\ ~cache[call.hostname].isMedium
        /\ cache[call.hostname].score = 0

\* w is the last resolved miss of the call's hostname, a failed probe
AnsweredFromMiss(call, w) ==
    (w.failed /\ clock - w.at < 600000) =>
        /\ call.pc = "done"
        /\ call.fetches = 0
        /\ IsNegative(call)

NoRefetchAfterMiss(call, pu) ==
    (Looks(call, pu) /\ pu.hostname \in DOMAIN lastWrite) =>
        AnsweredFromMiss(call, lastWrite[pu.hostname])

\* C2: a probe that fails (network error, abort, non-success status) or gives
\* no head makes detectMediumPublicationByHead return isMediumLikely = false
\* with score 0 and write that outcome to the cache for the hostname; the next
\* call for the hostname within the TTL window returns false with no fetch.
C2_FailedProbeIsCachedAsMiss ==
    [][/\ \A c \in Calls :
             ResumeOf(c) => FailedProbeCached(calls[c], returned', detectionCache')
       /\ Started => NoRefetchAfterMiss(NewCall, HostnameTable[NewCall.url])]_vars

MissServedAgain(call, h) ==
    /\ call.path = "hit"
    /\ call.fetches = 0
    /\ IsNegative(call)
    /\ h \in DOMAIN lastWrite
    /\ lastWrite[h].failed

\* a call was answered false, without a fetch, from the entry of a failed probe
C2_MissAnsweredWithoutFetch ==
    /\ returned.pc = "done"
    /\ MissServedAgain(returned, HostnameTable[returned.url].hostname)

AllowlistedIsTrue(call, pu) ==
    (call.api = "isMediumURL" /\ ~pu.threw /\ isDirectMediumDomain(pu.hostname)) =>
        /\ call.pc = "done"
        /\ call.outcome = "resolved"
        /\ call.ret
        /\ call.fetches = 0
        /\ call.gets = 0
        /\ call.sets = 0
        /\ detectionCache' = detectionCache

\* C3: for a URL whose hostname satisfies isDirectMediumDomain, isMediumURL
\* resolves to true with no fetch and no read or write of the cache, whatever
\* the cache holds (a negative entry for that hostname included).
C3_AllowlistedNeedsNoProbe ==
    [][Started => AllowlistedIsTrue(NewCall, HostnameTable[NewCall.url])]_vars

\* isMediumURL answered true for medium.com while the cache held a negative
\* entry for medium.com
C3_TrueDespiteNegativeEntry ==
    /\ returned.api = "isMediumURL"
    /\ returned.url = "https://medium.com/@alice/post-123"
    /\ returned.ret
    /\ returned.gets = 0
    /\ "medium.com" \in DOMAIN detectionCache
    /\ ~detectionCache["medium.com"].isMedium

UnparsableIsNegative(call, pu) ==
    pu.threw =>
        /\ call.pc = "done"
        /\ IsNegative(call)
        /\ call.fetches = 0
        /\ detectionCache' = detectionCache

FailureIsNegative(call, ret) ==
    /\ ret.outcome = "resolved"
    /\ ProbeFailed(call.ev) => IsNegative(ret)

\* C4: isMediumURL and detectMediumPublicationByHead never reject: an
\* unparsable URL resolves to a negative result with no fetch and no change of
\* the cache, and a failure of the fetch resolves to a negative result too.
C4_NeverRejects ==
    [][/\ returned'.outcome # "rejected"
       /\ \A c \in Calls : calls'[c].outcome # "rejected"
       /\ Started => UnparsableIsNegative(NewCall, HostnameTable[NewCall.url])
       /\ \A c \in Calls : ResumeOf(c) => FailureIsNegative(calls[c], returned')]_vars

\* detectMediumPublicationByHead resolved an unparsable URL to the negative result
C4_UnparsableResolved ==
    /\ returned.api = "detect"
    /\ returned.url = "not a url"
    /\ returned.outcome = "resolved"
    /\ returned.result = [isMediumLikely |-> FALSE, score |-> 0, reasons |-> <<"invalid URL">>]
    /\ returned.fetches = 0

\* the score of the two scoring bodies of the environment: rules 2, 4, 12 (and 13)
ExpectedScore(body) == IF body = BodyScore7 THEN 3 + 3 + 1 ELSE 3 + 3 + 1 + 1

\* the result r and the cache entry agree with score >= 8
ThresholdApplied(r, entry, score) ==
    /\ r.score = score
    /\ r.isMediumLikely = (score >= 8)
    /\ (score = 8 => r.isMediumLikely)
    /\ (score = 7 => ~r.isMediumLikely)
    /\ entry.isMedium = r.isMediumLikely
    /\ entry.score = r.score

ScoredMiss(call, ret, cache) ==
    ~ProbeFailed(call.ev) =>
        /\ call.threshold = 8
        /\ call.hostname \in DOMAIN cache
        /\ ThresholdApplied(ret.result, cache[call.hostname], ExpectedScore(call.ev.body))
        /\ ret.ret = ret.result.isMediumLikely

\* C5: on a miss with a successful fetch and a non-empty head the result is
\* isMediumLikely = (score >= 8): true at score 8, false at score 7, and the
\* cache entry carries the same boolean and score.
C5_ThresholdIsInclusive ==
    [][\A c \in Calls :
          ResumeOf(c) => ScoredMiss(calls[c], returned', detectionCache')]_vars

AtThreshold(call, h) ==
    /\ call.result.score = 8
    /\ call.result.isMediumLikely
    /\ h \in DOMAIN detectionCache
    /\ detectionCache[h].isMedium
    /\ detectionCache[h].score = 8

\* a miss scored exactly 8 and was classified and cached as Medium
C5_ScoreEightIsMedium ==
    /\ returned.path = "miss"
    /\ returned.sets = 1
    /\ AtThreshold(returned, HostnameTable[returned.url].hostname)

\* the cache entry that the resolved miss w wrote
EntryOf(w) ==
    [ts |-> w.at, isMedium |-> w.res.isMediumLikely, score |-> w.res.score,
     reasons |-> w.res.reasons]

WellFormed(r) ==
    /\ r.isMediumLikely \in BOOLEAN
    /\ r.score \in 0..27
    /\ Len(r.reasons) \in 0..13
    /\ r.isMediumLikely => r.score >= 8

\* a call that finds no fresh entry fetches, whatever else is in flight
FetchesItself(call, pu) ==
    (/\ Looks(call, pu)
     /\ ~(/\ pu.hostname \in DOMAIN detectionCache
          /\ clock - detectionCache[pu.hostname].ts < 600000)) =>
        /\ call.pc = "fetch"
        /\ call.fetches = 1

\* the call of slot c returns: a well-formed result after its one fetch, its
\* entry in the cache, the other calls where they were
FinishesAlone(c, call, ret, cache) ==
    /\ ret.outcome = "resolved"
    /\ ret.fetches = 1
    /\ WellFormed(ret.result)
    /\ cache[call.hostname] = EntryOf([at |-> call.now, res |-> ret.result])
    /\ \A d \in Calls \ {c} : calls'[d] = calls[d]

\* C8: calls may overlap: two calls for one uncached hostname in flight at
\* once each fetch, neither waits for or fails by the other, both return a
\* well-formed result, and the cache holds for a hostname exactly the entry of
\* the call that wrote last.
C8_OverlapLastWriteWins ==
    [][/\ Started => FetchesItself(NewCall, HostnameTable[NewCall.url])
       /\ \A c \in Calls :
             ResumeOf(c) => FinishesAlone(c, calls[c], returned', detectionCache')
       /\ DOMAIN detectionCache' = DOMAIN lastWrite'
       /\ \A h \in DOMAIN lastWrite' : detectionCache'[h] = EntryOf(lastWrite'[h])]_vars

SecondWriter(call, h) ==
    /\ h \in DOMAIN lastWrite
    /\ lastWrite[h].n = 2
    /\ lastWrite[h].url = call.url
    /\ detectionCache[h] = EntryOf([at |-> lastWrite[h].at, res |-> call.result])

\* two calls for one hostname were in flight at once, both have written, and
\* the cache holds the entry of the second writer
C8_TwoOverlappingWriters ==
    /\ overlapped
    /\ returned.sets = 1
    /\ \A c \in Calls : ~InFlight(c)
    /\ SecondWriter(returned, HostnameTable[returned.url].hostname)

\* fetchHeadHTML settled with fh after the network did ev, a failure
FailedFetchAllEmpty(ev, fh) == FetchFailed(ev) => (~fh.ok /\ fh.headHTML = "")

FailedFetchNotOk(ev, fh) ==
    FetchFailed(ev) =>
        /\ ~fh.ok
        /\ ev.kind # "body" => (fh.headHTML = "" /\ fh.status = 0)
        /\ ev.kind = "body" => (fh.headHTML = HeadTable[ev.body] /\ fh.status = ev.status)

\* C10 as stated: fetchHeadHTML returns ok = false and an empty headHTML in
\* every failing case, a non-success status included.
C10_FailureHasEmptyHead ==
    \A c \in Calls :
        calls[c].pc = "resume" => FailedFetchAllEmpty(calls[c].ev, calls[c].fh)

\* C10: fetchHeadHTML returns ok = false in every failing case; headHTML is
\* empty after a network error or an abort, and after a non-success status it
\* is the text between the head tags of the body that response carried.
C10_FailureIsNotOk ==
    \A c \in Calls :
        calls[c].pc = "resume" => FailedFetchNotOk(calls[c].ev, calls[c].fh)

\* a 404 response with head markup: ok = false and a non-empty headHTML
C10_NotFoundWithHead ==
    \E c \in Calls :
        /\ calls[c].pc = "resume"
        /\ calls[c].ev.kind = "body"
        /\ calls[c].ev.status = 404
        /\ ~calls[c].fh.ok
        /\ calls[c].fh.headHTML # ""

\* the lookup of a call is a hit exactly when its clock reading is less than
\* the TTL after the moment w, the last write for the hostname, happened
FreshSinceWritten(call, w) ==
    (call.path = "hit") = (clock - w.when < CACHE_TTL_MS)

\* the same from the timestamp that write stored
FreshSinceTimestamp(call, w) ==
    /\ (call.path = "hit") = (clock - w.at < CACHE_TTL_MS)
    /\ (call.path = "miss") = (clock - w.at >= CACHE_TTL_MS)

LookupSinceWritten(call, pu) ==
    (Looks(call, pu) /\ pu.hostname \in DOMAIN lastWrite) =>
        FreshSinceWritten(call, lastWrite[pu.hostname])

LookupSinceTimestamp(call, pu) ==
    (Looks(call, pu) /\ pu.hostname \in DOMAIN lastWrite) =>
        FreshSinceTimestamp(call, lastWrite[pu.hostname])

\* the write of a resolving call stores the reading the call took before its
\* fetch, which is not later than the write and at most the fetch timeout before
StampedBeforeFetch(call, w, entry) ==
    /\ entry.ts = call.now
    /\ w.at = call.now
    /\ w.when = clock
    /\ w.at <= w.when
    /\ w.when - w.at <= FETCH_TIMEOUT_MS

\* C11 as stated: an entry is fresh for every lookup made less than the TTL
\* after the moment it was written into the cache, and for no lookup after.
C11_FreshSinceWritten ==
    [][Started => LookupSinceWritten(NewCall, HostnameTable[NewCall.url])]_vars

\* C11: an entry is fresh for every lookup made less than the TTL (strictly)
\* after the entry's timestamp and for no lookup made at the TTL or later; the
\* timestamp is the clock reading that the writing call took at its own lookup,
\* before its fetch, so it precedes the write by the duration of that fetch.
C11_FreshSinceTimestamp ==
    [][/\ Started => LookupSinceTimestamp(NewCall, HostnameTable[NewCall.url])
       /\ \A c \in Calls :
             ResumeOf(c) =>
                 StampedBeforeFetch(calls[c], lastWrite'[calls[c].hostname],
                                    detectionCache'[calls[c].hostname])]_vars

StaleSoonerThanWritten(call, h) ==
    /\ h \in DOMAIN lastWrite
    /\ call.now - lastWrite[h].when < CACHE_TTL_MS
    /\ call.now - lastWrite[h].at = CACHE_TTL_MS

\* a lookup made less than the TTL after the entry was written, and exactly the
\* TTL after its timestamp, found the entry stale and fetches
C11_StaleBeforeTenMinutesSinceWrite ==
    \E c \in Calls :
        /\ calls[c].pc = "fetch"
        /\ calls[c].now = clock
        /\ StaleSoonerThanWritten(calls[c], calls[c].hostname)

\* the result of a call with threshold t agrees with score >= t
DecidedByOwnThreshold(call) ==
    call.result.isMediumLikely = (call.result.score >= call.threshold)

\* C12: every result that detectMediumPublicationByHead returns from a scored
\* head, to a call with threshold t, has isMediumLikely = (score >= t), also
\* when it is served from an entry stored by a call with another threshold.
C12_DecidedByTheCallsThreshold ==
    (/\ returned.pc = "done"
     /\ returned.api = "detect"
     /\ returned.path \in {"hit", "miss"}
     /\ returned.result.score > 0) => DecidedByOwnThreshold(returned)

\* the number of GETs of a call that has come to its first await or to its
\* return: one on a cache miss, none otherwise
FetchesOnMissOnly(call) ==
    /\ call.fetches = (IF call.path = "miss" THEN 1 ELSE 0)
    /\ (call.pc = "fetch") = (call.path = "miss")
    /\ call.path \in {"invalid", "direct", "hit"} => call.pc = "done"

\* a call in flight moves on from its one GET: to the body, to the resumption
\* of its caller, to its return, and never to another GET
NoSecondFetch(before, after, ret) ==
    /\ before.pc \in {"fetch", "text"} =>
           /\ after.pc \in {"fetch", "text", "resume"}
           /\ after.pc = "fetch" => after = before
           /\ after.fetches = 1
    /\ before.pc = "resume" =>
           \/ after = before
           \/ after.pc = "idle" /\ ret.pc = "done" /\ ret.fetches = 1

\* C13: there is no retry: a call to detectMediumPublicationByHead or to
\* isMediumURL issues exactly one GET on a cache miss and none on a fresh hit,
\* an unparsable URL or an allowlisted hostname, and after its GET fails, times
\* out or gives an empty head it returns without another.
C13_AtMostOneFetch ==
    [][/\ Started => FetchesOnMissOnly(NewCall)
       /\ ~Started => \A c \in Calls : NoSecondFetch(calls[c], calls'[c], returned')]_vars

FailedOnce(call, h) ==
    /\ call.path = "miss"
    /\ call.fetches = 1
    /\ ~call.ret
    /\ h \in DOMAIN lastWrite
    /\ lastWrite[h].failed
    /\ lastWrite[h].url = call.url
    /\ lastWrite[h].when - lastWrite[h].at = FETCH_TIMEOUT_MS

\* isMediumURL returned false after its one GET failed, 3000 ms after it began
C13_ReturnedAfterOneFailedFetch ==
    /\ returned.pc = "done"
    /\ returned.api = "isMediumURL"
    /\ FailedOnce(returned, HostnameTable[returned.url].hostname)

\* the step from cache to cache2 removes no hostname and, if hostname h is
\* given, changes at most the entry of h; with no hostname it changes nothing
OnlyEntryOf(h, cache, cache2) ==
    /\ DOMAIN cache \subseteq DOMAIN cache2
    /\ DOMAIN cache2 \subseteq DOMAIN cache \cup {h}
    /\ \A k \in DOMAIN cache \ {h} : cache2[k] = cache[k]

\* C14: no step removes a hostname from the cache; only the return of a call
\* that resolved its miss changes it, and only the entry of that call's
\* hostname: a fresh hit, an unparsable URL, an allowlisted isMediumURL call,
\* the lookup that finds a stale entry and the passing of time change nothing.
C14_CacheOnlyGrows ==
    [][/\ DOMAIN detectionCache \subseteq DOMAIN detectionCache'
       /\ (\A c \in Calls : ~ResumeOf(c)) => detectionCache' = detectionCache
       /\ \A c \in Calls :
             ResumeOf(c) => OnlyEntryOf(calls[c].hostname, detectionCache, detectionCache')]_vars

StaleKept(call, h) ==
    /\ h \in DOMAIN detectionCache
    /\ call.now - detectionCache[h].ts >= CACHE_TTL_MS
    /\ detectionCache[h] = EntryOf(lastWrite[h])

\* a call found the entry of its hostname stale and has fetched; the stale entry
\* is still in the cache as it was written
C14_StaleEntryStillStored ==
    \E c \in Calls :
        /\ calls[c].pc = "resume"
        /\ StaleKept(calls[c], calls[c].hostname)

\* the timer of a call is armed exactly while its request is pending
TimerWhilePending(call) == call.timer = (call.pc \in {"fetch", "text"})

\* an armed timer is never overdue: the request is aborted when timeoutMs
\* (3000 ms) has passed since the call began, and the aborted call has ok = false
AbortedInTime(call) ==
    /\ call.timer => clock - call.now <= FETCH_TIMEOUT_MS
    /\ call.ev.kind = "abort" => (call.pc = "resume" /\ ~call.fh.ok /\ ~call.timer)

TimersCleared ==
    /\ ~returned.timer
    /\ \A c \in Calls : TimerWhilePending(calls[c]) /\ AbortedInTime(calls[c])

\* C15: every call in flight eventually returns, whatever the network does;
\* a request still pending 3000 ms after the call began is aborted and the
\* call goes on with ok = false; a timer is armed only while its request is
\* pending, so none armed by a finished call remains.
C15_EveryCallReturns ==
    /\ []TimersCleared
    /\ \A c \in Calls : InFlight(c) ~> ~InFlight(c)

\* a request was aborted by its timer, 3000 ms after the call began; the timer
\* is cleared and the call is about to return with ok = false
C15_AbortedWhileReadingBody ==
    \E c \in Calls :
        /\ calls[c].pc = "resume"
        /\ calls[c].ev.kind = "abort"
        /\ clock - calls[c].now = FETCH_TIMEOUT_MS
        /\ ~calls[c].timer
        /\ ~calls[c].fh.ok

\* no entry of cache is replaced in cache2 by one with an earlier timestamp
NotOlder(cache, cache2) ==
    \A h \in DOMAIN cache : h \in DOMAIN cache2 /\ cache2[h].ts >= cache[h].ts

\* C16: in any interleaving of overlapping calls, an overwrite of a hostname's
\* entry installs a timestamp that is at least the timestamp it replaces.
C16_TimestampNeverMovesBack ==
    [][NotOlder(detectionCache, detectionCache')]_vars

\* the reasons of a result served from the cache are those that the call that
\* wrote the entry computed
ServedAsWritten(call, h) ==
    call.path = "hit" =>
        /\ h \in DOMAIN lastWrite
        /\ call.result.reasons = lastWrite[h].res.reasons

\* C17: a result handed to a caller does not share its reasons list with the
\* cache: whatever callers do to the reasons of the results they received, a
\* later call served from the cache receives the reasons that were computed
\* when the entry was written.
C17_CacheReasonsUntouched ==
    returned.pc = "done" =>
        ServedAsWritten(returned, HostnameTable[returned.url].hostname)

------------------------------------------------------------------------------
(* Properties of the host integration, under SpecHost *)

\* the step from tabs t to t2 is the handler h of click i opening the Freedium
\* URL of its click, after isMediumURL resolved true for it and, for the action
\* button, with the stored setting on
OpenedBy(h, i, t, t2) ==
    /\ h.pc \in {"create", "update"}
    /\ h.url # ""
    /\ h.isMedium
    /\ TRUE \in isMediumURLAnswers(h.url)
    /\ h.kind = "action" => stored.openLinksOnButtonClick
    /\ t2 = Append(t, [url |-> convertToFreediumUrl(h.url), how |-> h.pc, click |-> i])

\* the click of handler h had no URL, or isMediumURL resolved false for it, or
\* it was the action button with the setting off
Refused(h) ==
    /\ h.pc = "done"
    /\ \/ h.url = ""
       \/ ~h.isMedium
       \/ h.kind = "action" /\ ~stored.openLinksOnButtonClick

NoTabOf(i, t) == \A k \in 1..Len(t) : t[k].click # i

\* C18: a tab is created or updated only by a click handler for whose URL
\* isMediumURL resolved true, the URL opened is convertToFreediumUrl of it, and
\* for the action button the stored openLinksOnButtonClick is true; a click
\* without URL, with isMediumURL false, or with the setting off opens nothing.
C18_TabOnlyAfterMediumAndSetting ==
    [][/\ tabs' # tabs => \E i \in Clicks : OpenedBy(handlers[i], i, tabs, tabs')
       /\ \A i \in Clicks : Refused(handlers'[i]) => NoTabOf(i, tabs')]_vars

MenuNavigated(h, tab) ==
    /\ h.kind = "menu"
    /\ h.pc = "done"
    /\ tab.how = "update"
    /\ tab.url = "https://freedium-mirror.cfd/a.io/p1"

\* with the button setting off and openInNewTab off, a context-menu click on
\* https://a.io/p1 navigated the active tab to the Freedium URL, and an action
\* click has ended without a tab
C18_MenuOpensWithButtonSettingOff ==
    /\ ~stored.openLinksOnButtonClick
    /\ Len(tabs) = 1
    /\ MenuNavigated(handlers[tabs[1].click], tabs[1])
    /\ \E i \in Clicks : handlers[i].kind = "action" /\ handlers[i].note = "Freedium"

\* a handler that has shown the loading badge is running or has ended on the
\* success or the error badge
EndsOnFinalBadge(h) ==
    (h.pc = "done" /\ h.loading) => h.final \in {Check, Cross}

Running(h) == h.pc \notin {"idle", "done"}

\* C19: every handler that showed the loading badge shows the success or the
\* error badge before it ends, the loading badge is on only while a handler is
\* running, and when no handler is running and no clear timer is pending the
\* badge text is empty.
C19_BadgeNeverStuck ==
    /\ \A i \in Clicks : EndsOnFinalBadge(handlers[i])
    /\ ui.badge = Dots => \E i \in Clicks : Running(handlers[i])
    /\ ((\A i \in Clicks : ~Running(handlers[i])) /\ ui.badgeTimers = 0) => ui.badge = ""

EndedOn(h, note, badge) == h.pc = "done" /\ h.loading /\ h.note = note /\ h.final = badge

\* one handler ended on the error badge after getConfig or a tabs call rejected,
\* another on the success badge, both timers have fired and the badge is empty
C19_ErrorAndSuccessBothCleared ==
    /\ \E i \in Clicks : EndedOn(handlers[i], "Freedium Error", Cross)
    /\ \E i \in Clicks : EndedOn(handlers[i], "", Check)
    /\ ui.badgeTimers = 0
    /\ ui.badge = ""

====
